---- MODULE Spec2Model ----
(***************************************************************************)
(* A model of lofigui's output buffer (lofigui/context.py), of the action  *)
(* state of its Controller (lofigui/controller.py) and of the App shell    *)
(* that holds a controller (lofigui/app.py).                               *)
(*                                                                         *)
(* Strings are sequences of one-character strings, so that concatenation   *)
(* (+=) is \o and the empty string is <<>>.                                *)
(***************************************************************************)
EXTENDS Integers, Sequences, FiniteSets, TLC

(* Bound: the number of queue.put_nowait calls of one run. *)
MaxPuts == 4

(* The fragments a producer may enqueue: the empty string, "a" and "bc". *)
Fragments == {<< >>, <<"a">>, <<"b", "c">>}

VARIABLES
    ctx_queue,      \* _ctx.queue: the pending fragments, oldest first
    ctx_buffer,     \* _ctx.buffer: the accumulated string
    ret,            \* the string the last direct buffer() call returned
    drained,        \* the number of fragments the last direct read()/buffer() took
    lastOp,         \* the name of the last call made
    history,        \* every fragment enqueued since construction, in order
    wasReset,       \* whether the buffer was reset since construction
    ctx_max_buffer_size,  \* PrintContext.max_buffer_size: << >> (None) or <<n>>
    warned,         \* whether the last call raised the buffer-size warning
    rd_pc,          \* where the consumer stands in a read() taken step by step
    rd_op,          \* the call the consumer is in: "read", "buffer" or "none"
    rd_response,    \* the local variable response of that read()
    rd_pending,     \* the number of fragments pending when that read() was called
    rd_taken,       \* the number of fragments that read() has taken off the queue
    msgArg,         \* str(msg) of the last print call
    endArg,         \* the end argument of the last print call
    escapeArg,      \* the escape argument of the last print call
    app_controller,      \* App._controller: the held controller, or None
    app_action_running,  \* App._action_running
    app_poll,            \* App.poll
    app_startup,         \* App.startup
    app_refresh_time,    \* App.refresh_time
    app_poll_count,      \* App.poll_count
    app_startup_bounce_count,  \* App.startup_bounce_count
    ctl_action_running,  \* Controller._action_running, per Controller instance
    ctl_poll,            \* Controller.poll, per Controller instance
    ctl_refresh_time,    \* Controller.refresh_time, per Controller instance
    ctl_poll_count,      \* Controller.poll_count, per Controller instance
    raised,         \* the exception the last call raised to its caller, or "none"
    arg,            \* the controller the last call was given or made on, or None
    outgoing,       \* the controller the last assignment to App.controller found held
    swallowed,      \* whether the last assignment to App.controller caught an exception
    displaced,      \* the controllers displaced from the App and not used since
    callArgs,       \* the positional arguments of the last start_action call
    req,            \* the request given, if the last call was a render
    extraArg,       \* the extra dict given, if the last call was a render
    ctxd,           \* the context dict built, if the last call was a render
    reads,          \* the number of buffer() calls made, if the last call was a render
    http_response,  \* what the last call returned, if it was template_response
    nonHomeCalls,   \* k while the only calls since construction were k
                    \* template_response calls for non-home paths, else Other
    extraAfter,     \* the caller's extra dict as the last render left it
    default_extra,  \* the dict object that is the default of App.state_dict's extra
    sd_pc,          \* where a state_dict taken step by step stands
    sd_results,     \* d["results"] of that state_dict
    sd_req,         \* the request that state_dict was given
    sd_extra,       \* the extra that state_dict was given
    rowsArg,        \* the rows given to the last table call
    headerArg,      \* the header given to the last table call
    tableEscape,    \* the escape argument of the last table call
    html_ret,       \* the HTML the last handle_root call returned
    redirectArg,    \* the redirect_url given to the last handle_root call
    resetArg,       \* the reset_buffer given to the last handle_root call
    model_runs      \* the number of calls of model_func made so far

stepVars == <<rd_pc, rd_op, rd_response, rd_pending, rd_taken>>

printVars == <<msgArg, endArg, escapeArg>>

raceVars == <<sd_pc, sd_results, sd_req, sd_extra>>

tableVars == <<rowsArg, headerArg, tableEscape>>

rootVars == <<html_ret, redirectArg, resetArg, model_runs>>

auxVars == <<raceVars, tableVars, rootVars, default_extra>>

ctxVars == <<ctx_queue, ctx_buffer, ret, drained, history, wasReset,
             ctx_max_buffer_size, warned, stepVars, printVars, auxVars>>

appVars == <<app_controller, app_action_running, app_poll, app_startup,
             app_refresh_time, app_poll_count, app_startup_bounce_count>>

ctlVars == <<ctl_action_running, ctl_poll, ctl_refresh_time, ctl_poll_count>>

callVars == <<raised, arg, outgoing, swallowed, displaced, callArgs>>

renderVars == <<req, extraArg, ctxd, reads, http_response, nonHomeCalls,
                extraAfter>>

vars == <<ctx_queue, ctx_buffer, ret, drained, lastOp, history, wasReset,
          app_controller, app_action_running, app_poll, app_startup,
          app_refresh_time, app_poll_count, app_startup_bounce_count,
          ctl_action_running, ctl_poll, ctl_refresh_time, ctl_poll_count,
          raised, arg, outgoing, swallowed, displaced, callArgs,
          req, extraArg, ctxd, reads, http_response, extraAfter,
          nonHomeCalls, ctx_max_buffer_size, warned, stepVars, printVars, auxVars>>

(***************************************************************************)
(* Strings                                                                 *)
(***************************************************************************)

(* The concatenation of a sequence of strings, first to last. *)
RECURSIVE Flatten(_)
Flatten(fs) ==
    IF fs = << >> THEN << >> ELSE Flatten(SubSeq(fs, 1, Len(fs) - 1)) \o fs[Len(fs)]

(* The decimal digit of n < 10. *)
Digit(n) ==
    CASE n = 0 -> "0" [] n = 1 -> "1" [] n = 2 -> "2" [] n = 3 -> "3"
      [] n = 4 -> "4" [] n = 5 -> "5" [] n = 6 -> "6" [] n = 7 -> "7"
      [] n = 8 -> "8" [] n = 9 -> "9"

(* str(n) of a natural number, as the f-string formats it. *)
RECURSIVE Str(_)
Str(n) == IF n < 10 THEN <<Digit(n)>> ELSE Str(n \div 10) \o <<Digit(n % 10)>>

(* '<meta http-equiv="Refresh" content="' *)
MetaRefreshHead ==
    <<"<", "m", "e", "t", "a", " ", "h", "t", "t", "p", "-", "e", "q", "u",
      "i", "v", "=", "\"", "R", "e", "f", "r", "e", "s", "h", "\"", " ",
      "c", "o", "n", "t", "e", "n", "t", "=", "\"">>

(* '">' *)
MetaRefreshTail == <<"\"", ">">>

(* f'<meta http-equiv="Refresh" content="{refresh_time}">' *)
MetaRefresh(refresh_time) ==
    MetaRefreshHead \o Str(refresh_time) \o MetaRefreshTail

(* The refresh entry with the directive whether polling or not. *)
RefreshAlways(poll, refresh_time) == MetaRefresh(refresh_time)

(* The refresh entry of a context: the directive if self.poll, else "". *)
Refresh(poll, refresh_time) ==
    IF poll THEN MetaRefresh(refresh_time) ELSE << >>

(***************************************************************************)
(* Dicts                                                                   *)
(***************************************************************************)

(* {} *)
EmptyDict == [k \in {} |-> k]

(* d[k] = v *)
SetItem(d, k, v) == [x \in DOMAIN d \cup {k} |-> IF x = k THEN v ELSE d[x]]

(* a | b: the keys of both, with b's value where both have the key. *)
Merge(a, b) ==
    [x \in DOMAIN a \cup DOMAIN b |-> IF x \in DOMAIN b THEN b[x] ELSE a[x]]

(* The value of nonHomeCalls once any other call was made. *)
Other == -1

(* A call that is no render leaves no request, dict or response behind. *)
NoRender ==
    /\ req' = "None"
    /\ extraArg' = EmptyDict
    /\ extraAfter' = EmptyDict
    /\ ctxd' = EmptyDict
    /\ reads' = 0
    /\ http_response' = "none"
    /\ nonHomeCalls' = Other

(***************************************************************************)
(* PrintContext                                                            *)
(***************************************************************************)

(* The loop of PrintContext.read with the fragments taken newest first. *)
RECURSIVE DrainLoopNewestFirst(_, _)
DrainLoopNewestFirst(q, response) ==
    IF q = << >> THEN response
    ELSE DrainLoopNewestFirst(SubSeq(q, 1, Len(q) - 1), response \o q[Len(q)])

(* while not queue.empty(): response += queue.get_nowait() *)
RECURSIVE DrainLoop(_, _)
DrainLoop(q, response) ==
    IF q = << >> THEN response
    ELSE DrainLoop(Tail(q), response \o Head(q))

(* bool(self.max_buffer_size): None and 0 are false. *)
SizeTruthy(m) == m # << >> /\ m[1] # 0

(* Whether a read() that found q pending and leaves the buffer b raises the
   buffer-size warning: not on the early return, and only if
   self.max_buffer_size and len(self.buffer) > self.max_buffer_size. *)
Warns(q, b) ==
    /\ q # << >>
    /\ SizeTruthy(ctx_max_buffer_size)
    /\ Len(b) > ctx_max_buffer_size[1]

(* A read that cuts the buffer at max_buffer_size. *)
ReadBufferTruncating(q, b) ==
    LET r == IF q = << >> THEN b ELSE b \o DrainLoop(q, << >>)
    IN  IF SizeTruthy(ctx_max_buffer_size) /\ Len(r) > ctx_max_buffer_size[1]
        THEN SubSeq(r, 1, ctx_max_buffer_size[1])
        ELSE r

(* PrintContext.read with the early return dropping the buffer. *)
ReadBufferClearing(q, b) ==
    IF q = << >> THEN << >> ELSE b \o DrainLoop(q, << >>)

(* The buffer PrintContext.read leaves: unchanged on an empty queue, else
   the old buffer followed by the drained response. *)
ReadBuffer(q, b) ==
    IF q = << >> THEN b ELSE b \o DrainLoop(q, << >>)

(* A drain loop that stops one fragment short. *)
ReadQueueKeepingLast(q) == IF q = << >> THEN << >> ELSE <<q[Len(q)]>>

(* The queue PrintContext.read leaves: the loop runs until it is empty. *)
ReadQueue(q) == << >>

(* queue.put_nowait(f): a producer enqueues one fragment. *)
put_nowait(f) ==
    /\ Len(history) < MaxPuts
    /\ ctx_queue' = Append(ctx_queue, f)
    /\ history' = Append(history, f)
    /\ drained' = 0
    /\ warned' = FALSE
    /\ lastOp' = "put_nowait"
    /\ UNCHANGED <<ctx_buffer, ret, wasReset>>
    /\ UNCHANGED <<ctx_max_buffer_size, stepVars, printVars, auxVars>>
    /\ UNCHANGED <<appVars, ctlVars, callVars>>
    /\ NoRender

(* ctx.read() *)
read ==
    /\ ctx_buffer' = ReadBuffer(ctx_queue, ctx_buffer)
    /\ ctx_queue' = ReadQueue(ctx_queue)
    /\ drained' = Len(ctx_queue)
    /\ warned' = Warns(ctx_queue, ctx_buffer')
    /\ lastOp' = "read"
    /\ UNCHANGED <<ret, history, wasReset>>
    /\ UNCHANGED <<ctx_max_buffer_size, stepVars, printVars, auxVars>>
    /\ UNCHANGED <<appVars, ctlVars, callVars>>
    /\ NoRender

(* buffer(ctx): ctx.read(), then return ctx.buffer *)
buffer ==
    /\ ctx_buffer' = ReadBuffer(ctx_queue, ctx_buffer)
    /\ ctx_queue' = ReadQueue(ctx_queue)
    /\ drained' = Len(ctx_queue)
    /\ ret' = ctx_buffer'
    /\ warned' = Warns(ctx_queue, ctx_buffer')
    /\ lastOp' = "buffer"
    /\ UNCHANGED <<history, wasReset>>
    /\ UNCHANGED <<ctx_max_buffer_size, stepVars, printVars, auxVars>>
    /\ UNCHANGED <<appVars, ctlVars, callVars>>
    /\ NoRender

(* reset(ctx) that also empties the queue. *)
resetDrainingQueue ==
    /\ ctx_buffer' = << >>
    /\ ctx_queue' = << >>
    /\ wasReset' = TRUE
    /\ drained' = 0
    /\ warned' = FALSE
    /\ lastOp' = "reset"
    /\ UNCHANGED <<ret, history>>
    /\ UNCHANGED <<ctx_max_buffer_size, stepVars, printVars, auxVars>>
    /\ UNCHANGED <<appVars, ctlVars, callVars>>
    /\ NoRender

(* reset(ctx): ctx.buffer = "" *)
reset ==
    /\ ctx_buffer' = << >>
    /\ wasReset' = TRUE
    /\ drained' = 0
    /\ warned' = FALSE
    /\ lastOp' = "reset"
    /\ UNCHANGED <<ctx_queue, ret, history>>
    /\ UNCHANGED <<ctx_max_buffer_size, stepVars, printVars, auxVars>>
    /\ UNCHANGED <<appVars, ctlVars, callVars>>
    /\ NoRender

(***************************************************************************)
(* Controllers                                                             *)
(***************************************************************************)

None == "None"

(* Two lofigui Controller instances, and one instance of each of the two
   controller classes of tests/test_app.py. *)
StdControllers == {"c1", "c2"}

Controllers == StdControllers \cup {"minimal", "error"}

Kind(c) ==
    CASE c \in StdControllers -> "Controller"
      [] c = "minimal" -> "MinimalController"
      [] c = "error" -> "ErrorController"

(* The methods each class defines. *)
Methods(k) ==
    CASE k = "Controller" ->
            {"start_action", "end_action", "is_action_running", "state_dict",
             "get_template_path", "handle_root"}
      [] k = "MinimalController" -> {}
      [] k = "ErrorController" -> {"is_action_running", "end_action"}

HasMethod(c, m) == m \in Methods(Kind(c))

(* bool(c) of `if self.controller:`: None is false, an instance of a class
   without __bool__ and __len__ is true. *)
Truthy(c) == c # None

(* An optional refresh time is <<>> for None and <<n>> for the number n. *)
RefreshArgs == {<< >>, <<1>>, <<5>>}

(* Controller.__init__: refresh_time: int = 1 *)
ControllerInitRefresh == 1

(* Controller.start_action's default argument: refresh_time = None *)
ControllerStartDefault == << >>

(* if refresh_time is not None: self.refresh_time = refresh_time *)
NewRefresh(old, rt) == IF rt # << >> THEN rt[1] ELSE old

(* The value a parameter takes: the argument passed, or the default of the
   signature when the call passes none. *)
Bind(args, default) == IF args = << >> THEN default ELSE args[1]

(* The argument lists of a start_action call: none, or one optional refresh
   time. *)
StartArgs == {<< >>} \cup {<<rt>> : rt \in RefreshArgs}

(* Controller.start_action(args), called on the instance c *)
Controller_start_action(c, args) ==
    LET rt == Bind(args, ControllerStartDefault)
    IN  /\ ctl_action_running' = [ctl_action_running EXCEPT ![c] = TRUE]
        /\ ctl_poll' = [ctl_poll EXCEPT ![c] = TRUE]
        /\ ctl_refresh_time' =
               [ctl_refresh_time EXCEPT ![c] = NewRefresh(ctl_refresh_time[c], rt)]
        /\ raised' = "none"
        /\ arg' = c
        /\ outgoing' = None
        /\ swallowed' = FALSE
        /\ displaced' = displaced \ {c}
        /\ callArgs' = args
        /\ lastOp' = "Controller.start_action"
        /\ NoRender
        /\ UNCHANGED <<ctxVars, appVars, ctl_poll_count>>

(* Controller.end_action() that clears the running flag only. *)
Controller_end_action_KeepingPoll(c) ==
    /\ ctl_action_running' = [ctl_action_running EXCEPT ![c] = FALSE]
    /\ raised' = "none"
    /\ arg' = c
    /\ outgoing' = None
    /\ swallowed' = FALSE
    /\ callArgs' = << >>
    /\ lastOp' = "Controller.end_action"
    /\ UNCHANGED <<ctxVars, appVars, ctl_poll, ctl_refresh_time,
                   ctl_poll_count, displaced>>
    /\ NoRender

(* Controller.end_action(), called on the instance c *)
Controller_end_action(c) ==
    /\ ctl_action_running' = [ctl_action_running EXCEPT ![c] = FALSE]
    /\ ctl_poll' = [ctl_poll EXCEPT ![c] = FALSE]
    /\ raised' = "none"
    /\ arg' = c
    /\ outgoing' = None
    /\ swallowed' = FALSE
    /\ callArgs' = << >>
    /\ lastOp' = "Controller.end_action"
    /\ UNCHANGED <<ctxVars, appVars, ctl_refresh_time, ctl_poll_count,
                   displaced>>
    /\ NoRender

(* '<head><meta http-equiv="Refresh" content="0; URL=' *)
RedirectHead ==
    <<"<", "h", "e", "a", "d", ">", "<", "m", "e", "t", "a", " ", "h", "t",
      "t", "p", "-", "e", "q", "u", "i", "v", "=", "\"", "R", "e", "f",
      "r", "e", "s", "h", "\"", " ", "c", "o", "n", "t", "e", "n", "t",
      "=", "\"", "0", ";", " ", "U", "R", "L", "=">>

(* '"/></head>' *)
RedirectTail ==
    <<"\"", "/", ">", "<", "/", "h", "e", "a", "d", ">">>

(* The values of redirect_url: the default "/display", and "/go". *)
RedirectUrls ==
    { <<"/", "d", "i", "s", "p", "l", "a", "y">>,
      <<"/", "g", "o">> }

(* A handle_root that resets the buffer whatever reset_buffer is. *)
ResetsAlways(reset_buffer) == TRUE

(* handle_root: if reset_buffer: *)
ResetsBuffer(reset_buffer) == reset_buffer

(* Controller.handle_root(model_func, redirect_url, reset_buffer), called on
   the instance c: reset() when asked, self.start_action() with no refresh
   time, and the redirect returned; model_func is not used. *)
Controller_handle_root(c, redirect_url, reset_buffer) ==
    /\ ctx_buffer' = IF ResetsBuffer(reset_buffer) THEN << >> ELSE ctx_buffer
    /\ wasReset' = (wasReset \/ ResetsBuffer(reset_buffer))
    /\ ctl_action_running' = [ctl_action_running EXCEPT ![c] = TRUE]
    /\ ctl_poll' = [ctl_poll EXCEPT ![c] = TRUE]
    /\ ctl_refresh_time' =
           [ctl_refresh_time EXCEPT
                ![c] = NewRefresh(ctl_refresh_time[c], ControllerStartDefault)]
    /\ html_ret' = RedirectHead \o redirect_url \o RedirectTail
    /\ redirectArg' = redirect_url
    /\ resetArg' = reset_buffer
    /\ drained' = 0
    /\ warned' = FALSE
    /\ raised' = "none"
    /\ arg' = c
    /\ outgoing' = None
    /\ swallowed' = FALSE
    /\ displaced' = displaced \ {c}
    /\ callArgs' = << >>
    /\ lastOp' = "Controller.handle_root"
    /\ UNCHANGED <<ctx_queue, ret, history, ctx_max_buffer_size, stepVars,
                   printVars, raceVars, tableVars, default_extra, model_runs>>
    /\ UNCHANGED <<appVars, ctl_poll_count>>
    /\ NoRender

(* The model function of the caller, run by the caller's background task:
   it enqueues a fragment of output. *)
model_func(f) ==
    /\ Len(history) < MaxPuts
    /\ ctx_queue' = Append(ctx_queue, f)
    /\ history' = Append(history, f)
    /\ model_runs' = model_runs + 1
    /\ drained' = 0
    /\ warned' = FALSE
    /\ lastOp' = "model_func"
    /\ UNCHANGED <<ctx_buffer, ret, wasReset, ctx_max_buffer_size, stepVars,
                   printVars, raceVars, tableVars, default_extra, html_ret,
                   redirectArg, resetArg>>
    /\ UNCHANGED <<appVars, ctlVars, callVars>>
    /\ NoRender

(* Controller.is_action_running(), called on the instance c *)
Controller_is_action_running(c) == ctl_action_running[c]

(***************************************************************************)
(* App                                                                     *)
(***************************************************************************)

(* App.__init__: self.refresh_time = 1 *)
AppInitRefresh == 1

(* App.start_action's default argument: refresh_time = 1 *)
AppStartDefault == <<1>>

(* App.is_action_running() *)
App_is_action_running == app_action_running

(* self.controller.start_subaction(refresh_time) in App.start_action: the
   exception the call raises, "none" when no controller is held. *)
StartSubactionExc(c) ==
    IF Truthy(c) /\ ~HasMethod(c, "start_subaction") THEN "AttributeError"
    ELSE "none"

(* self.controller.end_subaction() in App.end_action: the exception the
   call raises, "none" when no controller is held. *)
EndSubactionExc(c) ==
    IF Truthy(c) /\ ~HasMethod(c, "end_subaction") THEN "AttributeError"
    ELSE "none"

(* The startup flag after a start_action that leaves it alone. *)
StartupKeptByStart == app_startup

(* start_action: self.startup = False *)
StartupAfterStart == FALSE

(* App.start_action(args) *)
App_start_action(args) ==
    LET rt == Bind(args, AppStartDefault)
    IN  /\ app_startup' = StartupAfterStart
        /\ app_action_running' = TRUE
        /\ app_poll' = TRUE
        /\ app_refresh_time' = NewRefresh(app_refresh_time, rt)
        /\ raised' = StartSubactionExc(app_controller)
        /\ arg' = None
        /\ outgoing' = None
        /\ swallowed' = FALSE
        /\ callArgs' = args
        /\ lastOp' = "App.start_action"
        /\ UNCHANGED <<ctxVars, ctlVars, app_controller, app_poll_count,
                       app_startup_bounce_count, displaced>>
        /\ NoRender

(* An end_action that also empties the buffer and the pending queue. *)
App_end_action_DroppingOutput ==
    /\ app_action_running' = FALSE
    /\ app_poll' = FALSE
    /\ ctx_buffer' = << >>
    /\ ctx_queue' = << >>
    /\ raised' = EndSubactionExc(app_controller)
    /\ arg' = None
    /\ outgoing' = None
    /\ swallowed' = FALSE
    /\ callArgs' = << >>
    /\ lastOp' = "App.end_action"
    /\ UNCHANGED <<ret, drained, history, wasReset, ctx_max_buffer_size,
                   warned, stepVars, printVars, auxVars>>
    /\ UNCHANGED <<ctlVars, app_controller, app_startup, app_refresh_time,
                   app_poll_count, app_startup_bounce_count, displaced>>
    /\ NoRender

(* App.end_action() *)
App_end_action ==
    /\ app_action_running' = FALSE
    /\ app_poll' = FALSE
    /\ raised' = EndSubactionExc(app_controller)
    /\ arg' = None
    /\ outgoing' = None
    /\ swallowed' = FALSE
    /\ callArgs' = << >>
    /\ lastOp' = "App.end_action"
    /\ UNCHANGED <<ctxVars, ctlVars, app_controller, app_startup,
                   app_refresh_time, app_poll_count, app_startup_bounce_count,
                   displaced>>
    /\ NoRender

(* An identity test that never finds the same controller. *)
NeverSameController(held, new) == FALSE

(* if self._controller is new_controller: return *)
SameController(held, new) == held = new

(* An except clause that catches nothing. *)
SetterCatchesNothing(exc) == FALSE

(* except Exception: pass, around the cleanup of the outgoing controller *)
SetterCatches(exc) == exc # "none"

(* App.controller = new: the property setter *)
App_controller_setter(new) ==
    LET held == app_controller
        cleanup == ~SameController(held, new) /\ held # None
        ends == cleanup /\ App_is_action_running
        exc == IF ends THEN EndSubactionExc(held) ELSE "none"
        escapes == exc # "none" /\ ~SetterCatches(exc)
    IN  /\ app_action_running' = IF ends THEN FALSE ELSE app_action_running
        /\ app_poll' = IF ends THEN FALSE ELSE app_poll
        /\ app_controller' = IF escapes THEN held ELSE new
        /\ raised' = IF escapes THEN exc ELSE "none"
        /\ swallowed' = (exc # "none" /\ ~escapes)
        /\ arg' = new
        /\ outgoing' = held
        /\ displaced' =
               IF app_controller' # held
               THEN (displaced \cup ({held} \ {None})) \ {new}
               ELSE displaced
        /\ callArgs' = << >>
        /\ lastOp' = "App.controller.setter"
        /\ UNCHANGED <<ctxVars, ctlVars, app_startup, app_refresh_time,
                       app_poll_count, app_startup_bounce_count>>
        /\ NoRender

(***************************************************************************)
(* Rendering                                                               *)
(***************************************************************************)

(* Bound: the value a poll_count may reach. *)
MaxPolls == 2

(* The requests a route hands on, named by their request.url.path. *)
Requests == {"/", "/display"}

(* The extra dicts of a call: the empty one, one with a key of the caller's
   own, and one that sets the keys state_dict sets itself. *)
Extras ==
    { EmptyDict,
      SetItem(EmptyDict, "title", <<"T">>),
      SetItem(SetItem(SetItem(SetItem(EmptyDict,
          "results", <<"x">>), "refresh", <<"y">>), "poll_count", 99),
          "request", "mine") }

(* Controller.state_dict: the dict it returns, given what buffer() returned. *)
ControllerDict(c, request, extra, results) ==
    LET d0 == IF DOMAIN extra # {} THEN extra ELSE EmptyDict
        d1 == SetItem(d0, "request", request)
        d2 == SetItem(d1, "results", results)
        d3 == IF ctl_poll[c] THEN SetItem(d2, "poll_count", ctl_poll_count[c])
              ELSE d2
    IN  SetItem(d3, "refresh", Refresh(ctl_poll[c], ctl_refresh_time[c]))

(* d = extra, without the copy: the keys Controller.state_dict sets are then
   written into the caller's dict itself. *)
CopiedExtraAliased(extra, d) == IF DOMAIN extra # {} THEN d ELSE extra

(* d = extra.copy() if extra else {}: the caller's dict, after the keys of
   the dict d were set on a copy of it. *)
CopiedExtra(extra, d) == extra

(* Controller.state_dict: the poll_count it leaves. *)
ControllerPollCount(c) == IF ctl_poll[c] THEN ctl_poll_count[c] + 1 ELSE 0

(* App.controller_name() *)
App_controller_name ==
    IF app_controller # None /\ HasMethod(app_controller, "name")
    THEN app_controller
    ELSE "Lofigui no controller"

(* App.state_dict: the poll_count it leaves. *)
AppPollCount == IF app_poll THEN app_poll_count + 1 ELSE 0

(* App.state_dict: the dict d before the controller's state or extra is
   merged in, given what buffer() returned. *)
AppDefaults(request, results) ==
    LET d1 == SetItem(EmptyDict, "request", request)
        d2 == SetItem(d1, "version", "Lofigui")
        d3 == SetItem(d2, "results", results)
        d4 == SetItem(d3, "controller_name", App_controller_name)
        d5 == SetItem(d4, "polling", IF app_poll THEN "Running" ELSE "Stopped")
        d6 == SetItem(d5, "refresh", Refresh(app_poll, app_refresh_time))
    IN  SetItem(d6, "poll_count", AppPollCount)

(* The body of App.state_dict(request, extra): buffer() is called for d,
   and once more by the state_dict of a held Controller, which is given
   extra but not the request; a held controller without state_dict makes
   the call raise after the App's own fields were updated.  A call whose
   extra is empty is a call made without extra: its extra is the dict
   object of the default. *)
StateDict(request, extra) ==
    LET held == app_controller
        used == IF DOMAIN extra = {} THEN default_extra ELSE extra
        b1 == ReadBuffer(ctx_queue, ctx_buffer)
        q1 == ReadQueue(ctx_queue)
        d == AppDefaults(request, b1)
        exc == IF Truthy(held) /\ ~HasMethod(held, "state_dict")
               THEN "AttributeError" ELSE "none"
        viaCtl == Truthy(held) /\ exc = "none"
        b2 == IF viaCtl THEN ReadBuffer(q1, b1) ELSE b1
        q2 == IF viaCtl THEN ReadQueue(q1) ELSE q1
        after == IF viaCtl
                 THEN CopiedExtra(used, ControllerDict(held, None, used, b2))
                 ELSE used
    IN  /\ ctx_buffer' = b2
        /\ ctx_queue' = q2
        /\ app_poll_count' = AppPollCount
        /\ ctl_poll_count' =
               IF viaCtl
               THEN [ctl_poll_count EXCEPT ![held] = ControllerPollCount(held)]
               ELSE ctl_poll_count
        /\ ctxd' = IF exc # "none" THEN EmptyDict
                   ELSE IF viaCtl
                        THEN Merge(d, ControllerDict(held, None, used, b2))
                        ELSE Merge(d, used)
        /\ reads' = IF viaCtl THEN 2 ELSE 1
        /\ raised' = exc
        /\ req' = request
        /\ extraArg' = extra
        /\ extraAfter' = after
        /\ default_extra' = IF DOMAIN extra = {} THEN after ELSE default_extra
        /\ warned' = Warns(ctx_queue, b1)
        /\ UNCHANGED <<ret, drained, history, wasReset, ctx_max_buffer_size,
                       stepVars, printVars, raceVars, tableVars, rootVars>>

(* The poll counts a render would increment are below the bound. *)
PollsBelowBound ==
    /\ app_poll => app_poll_count < MaxPolls
    /\ \A c \in StdControllers \cap {app_controller} :
           ctl_poll[c] => ctl_poll_count[c] < MaxPolls

(* App.state_dict(request, extra) *)
App_state_dict(request, extra) ==
    /\ PollsBelowBound
    /\ StateDict(request, extra)
    /\ http_response' = "none"
    /\ nonHomeCalls' = Other
    /\ arg' = None
    /\ outgoing' = None
    /\ swallowed' = FALSE
    /\ callArgs' = << >>
    /\ lastOp' = "App.state_dict"
    /\ UNCHANGED <<app_controller, app_action_running, app_poll, app_startup,
                   app_refresh_time, app_startup_bounce_count,
                   ctl_action_running, ctl_poll, ctl_refresh_time, displaced>>

(* Controller.state_dict(request, extra), called on the instance c *)
Controller_state_dict(c, request, extra) ==
    LET results == ReadBuffer(ctx_queue, ctx_buffer)
    IN  /\ ctl_poll[c] => ctl_poll_count[c] < MaxPolls
        /\ ctx_buffer' = results
        /\ ctx_queue' = ReadQueue(ctx_queue)
        /\ ctl_poll_count' =
               [ctl_poll_count EXCEPT ![c] = ControllerPollCount(c)]
        /\ ctxd' = ControllerDict(c, request, extra, results)
        /\ reads' = 1
        /\ raised' = "none"
        /\ req' = request
        /\ extraArg' = extra
        /\ extraAfter' =
               CopiedExtra(extra, ControllerDict(c, request, extra, results))
        /\ http_response' = "none"
        /\ nonHomeCalls' = Other
        /\ arg' = c
        /\ outgoing' = None
        /\ swallowed' = FALSE
        /\ callArgs' = << >>
        /\ lastOp' = "Controller.state_dict"
        /\ warned' = Warns(ctx_queue, results)
        /\ UNCHANGED <<ctx_max_buffer_size, stepVars, printVars, auxVars>>
        /\ UNCHANGED <<ret, drained, history, wasReset, appVars,
                       ctl_action_running,
                       ctl_poll, ctl_refresh_time, displaced>>

(* template_response: if self.startup_bounce_count <= 3 *)
StartupBounces == 3

(* The test of the bounce without the test of the path. *)
BounceAnyPath(count, request) == count <= StartupBounces

(* self.startup_bounce_count <= 3 and request.url.path != "/" *)
Bounce(count, request) == count <= StartupBounces /\ request # "/"

(* The startup test taken as true on every call. *)
InStartupAlways == TRUE

(* template_response: if self.startup: *)
InStartup == app_startup

(* A template_response that leaves the startup flag as it found it. *)
StartupKeptByResponse == app_startup

(* template_response: self.startup = False *)
StartupAfterResponse == FALSE

(* App.template_response(request, templateName, extra): the redirect to the
   home page, or the template rendered with the dict of state_dict. *)
App_template_response(request, extra) ==
    LET count == IF InStartup THEN app_startup_bounce_count + 1
                 ELSE app_startup_bounce_count
        redirect == InStartup /\ Bounce(count, request)
    IN  /\ ~redirect => PollsBelowBound
        /\ app_startup' = IF InStartup THEN StartupAfterResponse
                        ELSE app_startup
        /\ app_startup_bounce_count' = count
        /\ IF redirect
           THEN /\ http_response' = "redirect"
                /\ ctxd' = EmptyDict
                /\ reads' = 0
                /\ raised' = "none"
                /\ req' = request
                /\ extraArg' = extra
                /\ extraAfter' = extra
                /\ UNCHANGED <<ctxVars, app_poll_count, ctl_poll_count>>
           ELSE /\ StateDict(request, extra)
                /\ http_response' = IF raised' = "none" THEN "template" ELSE "none"
        /\ nonHomeCalls' = IF nonHomeCalls \in 0..StartupBounces /\ request # "/"
                           THEN nonHomeCalls + 1 ELSE Other
        /\ arg' = None
        /\ outgoing' = None
        /\ swallowed' = FALSE
        /\ callArgs' = << >>
        /\ lastOp' = "App.template_response"
        /\ UNCHANGED <<app_controller, app_action_running, app_poll,
                       app_refresh_time, ctl_action_running, ctl_poll,
                       ctl_refresh_time, displaced>>

(***************************************************************************)
(* App.state_dict taken step by step, beside a background task             *)
(***************************************************************************)

(* App.state_dict up to d["results"] = buffer(): the buffer is read into
   the local dict; self.poll is not looked at yet. *)
state_dict_buffer(request, extra) ==
    /\ sd_pc = "idle"
    /\ PollsBelowBound
    /\ sd_pc' = "poll"
    /\ sd_results' = ReadBuffer(ctx_queue, ctx_buffer)
    /\ sd_req' = request
    /\ sd_extra' = extra
    /\ ctx_buffer' = ReadBuffer(ctx_queue, ctx_buffer)
    /\ ctx_queue' = ReadQueue(ctx_queue)
    /\ warned' = Warns(ctx_queue, ctx_buffer')
    /\ lastOp' = "state_dict:buffer"
    /\ UNCHANGED <<ret, drained, history, wasReset, ctx_max_buffer_size,
                   stepVars, printVars, tableVars, rootVars, default_extra>>
    /\ UNCHANGED <<appVars, ctlVars, callVars>>
    /\ NoRender

(* App.state_dict from `if self.poll:` to its return: polling, refresh and
   poll_count are taken from the App as it is now, the state of a held
   controller or extra is merged in, and the dict is returned. *)
state_dict_poll ==
    LET held == app_controller
        extra == sd_extra
        used == IF DOMAIN extra = {} THEN default_extra ELSE extra
        d == AppDefaults(sd_req, sd_results)
        exc == IF Truthy(held) /\ ~HasMethod(held, "state_dict")
               THEN "AttributeError" ELSE "none"
        viaCtl == Truthy(held) /\ exc = "none"
        b2 == IF viaCtl THEN ReadBuffer(ctx_queue, ctx_buffer) ELSE ctx_buffer
        q2 == IF viaCtl THEN ReadQueue(ctx_queue) ELSE ctx_queue
        after == IF viaCtl
                 THEN CopiedExtra(used, ControllerDict(held, None, used, b2))
                 ELSE used
    IN  /\ sd_pc = "poll"
        /\ sd_pc' = "idle"
        /\ ctx_buffer' = b2
        /\ ctx_queue' = q2
        /\ app_poll_count' = AppPollCount
        /\ ctl_poll_count' =
               IF viaCtl
               THEN [ctl_poll_count EXCEPT ![held] = ControllerPollCount(held)]
               ELSE ctl_poll_count
        /\ ctxd' = IF exc # "none" THEN EmptyDict
                   ELSE IF viaCtl
                        THEN Merge(d, ControllerDict(held, None, used, b2))
                        ELSE Merge(d, used)
        /\ reads' = IF viaCtl THEN 2 ELSE 1
        /\ raised' = exc
        /\ req' = sd_req
        /\ extraArg' = extra
        /\ extraAfter' = after
        /\ default_extra' = IF DOMAIN extra = {} THEN after ELSE default_extra
        /\ warned' = IF viaCtl THEN Warns(ctx_queue, b2) ELSE warned
        /\ http_response' = "none"
        /\ nonHomeCalls' = Other
        /\ arg' = None
        /\ outgoing' = None
        /\ swallowed' = FALSE
        /\ callArgs' = << >>
        /\ lastOp' = "App.state_dict"
        /\ UNCHANGED <<ret, drained, history, wasReset, ctx_max_buffer_size,
                       stepVars, printVars, tableVars, rootVars,
                       sd_results, sd_req, sd_extra>>
        /\ UNCHANGED <<app_controller, app_action_running, app_poll,
                       app_startup, app_refresh_time, app_startup_bounce_count,
                       ctl_action_running, ctl_poll, ctl_refresh_time,
                       displaced>>

(* The last fragment the background task enqueues: lg.print("Done.") *)
FinalFragment == <<"D">>

(* Whether the fragment f was enqueued. *)
WasEnqueued(f) == \E i \in 1..Len(history) : history[i] = f

(* root(): app.start_action(), with the task not started before *)
task_start(args) ==
    /\ ~app_action_running
    /\ ~WasEnqueued(FinalFragment)
    /\ App_start_action(args)

(* model(): a print of the running task, before its last *)
task_print(f) ==
    /\ app_action_running
    /\ ~WasEnqueued(FinalFragment)
    /\ put_nowait(f)

(* model(): lg.print("Done.") *)
task_print_final ==
    /\ app_action_running
    /\ ~WasEnqueued(FinalFragment)
    /\ put_nowait(FinalFragment)

(* model(): app.end_action(), after the last print *)
task_end_action ==
    /\ app_action_running
    /\ WasEnqueued(FinalFragment)
    /\ App_end_action

(***************************************************************************)
(* PrintContext as a context manager                                       *)
(***************************************************************************)

(* The exc_type given to __exit__: None, or the exception leaving the block. *)
ExitArgs == {None, "ValueError"}

(* An __exit__ that clears the buffer only when no exception leaves. *)
ExitBufferNormalOnly(exc, b) == IF exc = None THEN << >> ELSE b

(* __exit__: self.buffer = "" *)
ExitBuffer(exc, b) == << >>

(* ctx.__exit__(exc_type, exc_val, exc_tb): returns None, so the exception
   goes on to the caller of the with block. *)
PrintContext_exit(exc) ==
    /\ ctx_buffer' = ExitBuffer(exc, ctx_buffer)
    /\ wasReset' = TRUE
    /\ drained' = 0
    /\ warned' = FALSE
    /\ raised' = IF exc = None THEN "none" ELSE exc
    /\ arg' = exc
    /\ outgoing' = None
    /\ swallowed' = FALSE
    /\ callArgs' = << >>
    /\ lastOp' = "__exit__"
    /\ UNCHANGED <<ctx_queue, ret, history, ctx_max_buffer_size, stepVars,
                   printVars, auxVars, appVars, ctlVars, displaced>>
    /\ NoRender

(***************************************************************************)
(* PrintContext.read taken step by step                                    *)
(***************************************************************************)

(* The fragments each producer enqueues, in its order. *)
Producers == {"p1", "p2"}

Script(p) ==
    IF p = "p1" THEN << <<"a">>, <<"b", "c">>, <<"d">> >>
    ELSE << <<"x">>, <<"y">>, <<"z">> >>

(* The characters only the producer p enqueues. *)
Alphabet(p) == IF p = "p1" THEN {"a", "b", "c", "d"} ELSE {"x", "y", "z"}

(* The number of fragments of the producer p among those enqueued. *)
Enqueued(p) ==
    Cardinality({i \in 1..Len(history) :
                    \E k \in 1..Len(Script(p)) : history[i] = Script(p)[k]})

(* The producer p enqueues its next fragment. *)
Producer_put(p) ==
    /\ Enqueued(p) < Len(Script(p))
    /\ put_nowait(Script(p)[Enqueued(p) + 1])

(* A get_nowait that returns the newest fragment. *)
GetNewest(q) == q[Len(q)]

(* queue.get_nowait(): the oldest fragment *)
GetNowait(q) == Head(q)

(* The consumer calls read() or buffer(): if self.queue.empty(): return *)
read_call(op) ==
    /\ rd_pc = "idle"
    /\ rd_pending' = Len(ctx_queue)
    /\ rd_taken' = 0
    /\ rd_response' = << >>
    /\ IF ctx_queue = << >>
       THEN /\ rd_pc' = "idle"
            /\ rd_op' = "none"
            /\ ret' = IF op = "buffer" THEN ctx_buffer ELSE ret
            /\ lastOp' = op
       ELSE /\ rd_pc' = "while"
            /\ rd_op' = op
            /\ ret' = ret
            /\ lastOp' = "read_call"
    /\ drained' = 0
    /\ warned' = FALSE
    /\ UNCHANGED <<ctx_queue, ctx_buffer, history, wasReset,
                   ctx_max_buffer_size, printVars, auxVars>>
    /\ UNCHANGED <<appVars, ctlVars, callVars>>
    /\ NoRender

(* while not self.queue.empty(): *)
read_while ==
    /\ rd_pc = "while"
    /\ rd_pc' = IF ctx_queue = << >> THEN "append" ELSE "get"
    /\ lastOp' = "read_while"
    /\ UNCHANGED <<ctx_queue, ctx_buffer, ret, drained, history, wasReset,
                   ctx_max_buffer_size, warned, printVars, auxVars>>
    /\ UNCHANGED <<rd_op, rd_response, rd_pending, rd_taken>>
    /\ UNCHANGED <<appVars, ctlVars, callVars>>
    /\ NoRender

(* response += self.queue.get_nowait(); QueueEmpty ends the loop *)
read_get_nowait ==
    /\ rd_pc = "get"
    /\ IF ctx_queue = << >>
       THEN /\ rd_pc' = "append"
            /\ UNCHANGED <<ctx_queue, rd_response, rd_taken>>
       ELSE /\ rd_pc' = "while"
            /\ rd_response' = rd_response \o GetNowait(ctx_queue)
            /\ ctx_queue' = Tail(ctx_queue)
            /\ rd_taken' = rd_taken + 1
    /\ lastOp' = "read_get_nowait"
    /\ UNCHANGED <<ctx_buffer, ret, drained, history, wasReset,
                   ctx_max_buffer_size, warned, printVars, auxVars>>
    /\ UNCHANGED <<rd_op, rd_pending>>
    /\ UNCHANGED <<appVars, ctlVars, callVars>>
    /\ NoRender

(* self.buffer += response, the warning, and the return to the caller *)
read_append ==
    /\ rd_pc = "append"
    /\ ctx_buffer' = ctx_buffer \o rd_response
    /\ warned' = ( /\ SizeTruthy(ctx_max_buffer_size)
                   /\ Len(ctx_buffer') > ctx_max_buffer_size[1] )
    /\ drained' = rd_taken
    /\ ret' = IF rd_op = "buffer" THEN ctx_buffer' ELSE ret
    /\ rd_pc' = "idle"
    /\ rd_op' = "none"
    /\ rd_response' = << >>
    /\ lastOp' = rd_op
    /\ UNCHANGED <<ctx_queue, history, wasReset, ctx_max_buffer_size,
                   printVars, auxVars, rd_pending, rd_taken>>
    /\ UNCHANGED <<appVars, ctlVars, callVars>>
    /\ NoRender

(***************************************************************************)
(* print                                                                   *)
(***************************************************************************)

(* Bound: the number of print calls of one run. *)
MaxPrints == 2

(* The messages given to print: strings, and objects that are not strings. *)
Msgs ==
    { [type |-> "str", val |-> << >>],
      [type |-> "str", val |-> <<"a">>],
      [type |-> "str", val |-> <<"<", "b", ">">>],
      [type |-> "str", val |-> <<"a", "&", "\"">>],
      [type |-> "str", val |-> <<"&", "l", "t", ";">>],
      [type |-> "str", val |-> <<"'">>],
      [type |-> "int", val |-> 42] }

(* The end arguments: the default "\n", "" and " ". *)
Ends == {<<"\n">>, << >>, <<" ">>}

(* str(msg) *)
PyStr(msg) == IF msg.type = "int" THEN Str(msg.val) ELSE msg.val

(* An escape that leaves the ampersand as it is. *)
EscapeCharKeepingAmp(ch) ==
    CASE ch = "<" -> <<"&", "l", "t", ";">>
      [] ch = ">" -> <<"&", "g", "t", ";">>
      [] ch = "\"" -> <<"&", "q", "u", "o", "t", ";">>
      [] ch = "'" -> <<"&", "#", "x", "2", "7", ";">>
      [] OTHER -> <<ch>>

(* html.escape on one character (quote=True) *)
EscapeChar(ch) ==
    CASE ch = "&" -> <<"&", "a", "m", "p", ";">>
      [] ch = "<" -> <<"&", "l", "t", ";">>
      [] ch = ">" -> <<"&", "g", "t", ";">>
      [] ch = "\"" -> <<"&", "q", "u", "o", "t", ";">>
      [] ch = "'" -> <<"&", "#", "x", "2", "7", ";">>
      [] OTHER -> <<ch>>

(* html.escape(s) *)
RECURSIVE HtmlEscape(_)
HtmlEscape(s) ==
    IF s = << >> THEN << >> ELSE EscapeChar(Head(s)) \o HtmlEscape(Tail(s))

(* A wrapper that makes a paragraph whatever end is. *)
WrapParagraph(m, end) ==
    <<"<", "p", ">">> \o m \o <<"<", "/", "p", ">", "\n">>

(* f"<p>{msg}</p>\n" if end == "\n", else f"&nbsp;{msg}&nbsp;" *)
Wrap(m, end) ==
    IF end = <<"\n">>
    THEN <<"<", "p", ">">> \o m \o <<"<", "/", "p", ">", "\n">>
    ELSE <<"&", "n", "b", "s", "p", ";">> \o m \o <<"&", "n", "b", "s", "p", ";">>

(* print(msg, end=end, escape=escape) on the default context *)
lofigui_print(msg, end, escape) ==
    LET m == IF escape THEN HtmlEscape(PyStr(msg)) ELSE PyStr(msg)
        f == Wrap(m, end)
    IN  /\ Len(history) < MaxPrints
        /\ ctx_queue' = Append(ctx_queue, f)
        /\ history' = Append(history, f)
        /\ msgArg' = PyStr(msg)
        /\ endArg' = end
        /\ escapeArg' = escape
        /\ drained' = 0
        /\ warned' = FALSE
        /\ raised' = "none"
        /\ lastOp' = "print"
        /\ UNCHANGED <<ctx_buffer, ret, wasReset, ctx_max_buffer_size,
                       stepVars, auxVars>>
        /\ UNCHANGED <<appVars, ctlVars, arg, outgoing, swallowed, displaced,
                       callArgs>>
        /\ NoRender

(***************************************************************************)
(* table                                                                   *)
(***************************************************************************)

(* '<table class="table is-bordered is-striped">\n' *)
TableOpen ==
    <<"<", "t", "a", "b", "l", "e", " ", "c", "l", "a", "s", "s", "=",
      "\"", "t", "a", "b", "l", "e", " ", "i", "s", "-", "b", "o", "r",
      "d", "e", "r", "e", "d", " ", "i", "s", "-", "s", "t", "r", "i", "p",
      "e", "d", "\"", ">", "\n">>

(* '  <thead><tr>\n' *)
TheadOpen ==
    <<" ", " ", "<", "t", "h", "e", "a", "d", ">", "<", "t", "r", ">",
      "\n">>

(* '  </tr></thead>\n' *)
TheadClose ==
    <<" ", " ", "<", "/", "t", "r", ">", "<", "/", "t", "h", "e", "a", "d",
      ">", "\n">>

(* '  <tbody>\n' *)
TbodyOpen ==
    <<" ", " ", "<", "t", "b", "o", "d", "y", ">", "\n">>

(* '  </tbody>\n' *)
TbodyClose ==
    <<" ", " ", "<", "/", "t", "b", "o", "d", "y", ">", "\n">>

(* '    <tr>\n' *)
TrOpen ==
    <<" ", " ", " ", " ", "<", "t", "r", ">", "\n">>

(* '    </tr>\n' *)
TrClose ==
    <<" ", " ", " ", " ", "<", "/", "t", "r", ">", "\n">>

(* '</table>\n' *)
TableClose ==
    <<"<", "/", "t", "a", "b", "l", "e", ">", "\n">>

(* '    <th>' *)
ThOpen ==
    <<" ", " ", " ", " ", "<", "t", "h", ">">>

(* '</th>\n' *)
ThClose ==
    <<"<", "/", "t", "h", ">", "\n">>

(* '      <td>' *)
TdOpen ==
    <<" ", " ", " ", " ", " ", " ", "<", "t", "d", ">">>

(* '      <td colspan="' *)
TdColspanOpen ==
    <<" ", " ", " ", " ", " ", " ", "<", "t", "d", " ", "c", "o", "l", "s",
      "p", "a", "n", "=", "\"">>

(* '</td>\n' *)
TdClose ==
    <<"<", "/", "t", "d", ">", "\n">>

(* The fields of a table: a string with a character html.escape rewrites,
   and an object that is not a string. *)
FieldA == [type |-> "str", val |-> <<"&">>]

FieldN == [type |-> "int", val |-> 7]

(* A header field, a string with markup characters. *)
FieldH == [type |-> "str", val |-> <<"<", "h", ">">>]

(* A row that is not iterable (an int, as in table([1, 2, 3])). *)
NotIterable == [iter |-> FALSE, cells |-> << >>]

(* A row that is a list of fields. *)
Row(cells) == [iter |-> TRUE, cells |-> cells]

(* The rows of the tables given: rows of no, one, two and four fields, and
   a row that is not iterable. *)
RowArgs ==
    { NotIterable, Row(<< >>), Row(<<FieldA>>), Row(<<FieldA, FieldN>>),
      Row(<<FieldA, FieldN, FieldA, FieldN>>) }

(* The tables given: no row, one row, two rows. *)
TableArgs ==
    {<< >>} \cup {<<r>> : r \in RowArgs}
            \cup {<<r1, r2>> : r1 \in RowArgs, r2 \in RowArgs}

(* The headers given: none (None or []), or two or three fields. *)
HeaderArgs == {<< >>, <<FieldH, FieldH>>, <<FieldH, FieldH, FieldH>>}

(* html_lib.escape(str(field)) if escape else str(field) *)
EscapedField(field, escape) ==
    IF escape THEN HtmlEscape(PyStr(field)) ELSE PyStr(field)

(* A validation that looks at the first row only. *)
InvalidRowsFirstOnly(table) == table # << >> /\ ~table[1].iter

(* table and not all(hasattr(row, "__iter__") for row in table) *)
InvalidRows(table) ==
    table # << >> /\ ~(\A r \in 1..Len(table) : table[r].iter)

(* extend_last_field = header and len(header) > len(row) *)
ExtendLastField(header, row) == header # << >> /\ Len(header) > Len(row)

(* A colspan that leaves out the cell itself. *)
ColspanWithoutCell(header, i) == Len(header) - i - 1

(* len(header)-i, for the field of index i (from 0) *)
Colspan(header, i) == Len(header) - i

(* The cell of the field of index i (from 0) of a row. *)
Td(header, row, i, escape) ==
    IF ExtendLastField(header, row) /\ i = Len(row) - 1
    THEN TdColspanOpen \o Str(Colspan(header, i)) \o <<"\"", ">">>
             \o EscapedField(row[i + 1], escape) \o TdClose
    ELSE TdOpen \o EscapedField(row[i + 1], escape) \o TdClose

(* The rows of the body: for row in table *)
Tr(header, row, escape) ==
    TrOpen
        \o Flatten([k \in 1..Len(row) |-> Td(header, row, k - 1, escape)])
        \o TrClose

(* The thead: for field in header *)
Thead(header, escape) ==
    TheadOpen
        \o Flatten([k \in 1..Len(header) |->
                        ThOpen \o EscapedField(header[k], escape) \o ThClose])
        \o TheadClose

(* The string result that table builds. *)
TableHtml(table, header, escape) ==
    TableOpen
        \o (IF header # << >> THEN Thead(header, escape) ELSE << >>)
        \o (IF table # << >>
            THEN TbodyOpen
                     \o Flatten([r \in 1..Len(table) |->
                                     Tr(header, table[r].cells, escape)])
                     \o TbodyClose
            ELSE << >>)
        \o TableClose

(* Whether a table was enqueued. *)
TableEnqueued ==
    \E i \in 1..Len(history) :
        /\ Len(history[i]) >= Len(TableOpen)
        /\ SubSeq(history[i], 1, Len(TableOpen)) = TableOpen

(* table(table, header, escape=escape) on the default context, the one
   table of a run: ValueError before anything is built when a row is not
   iterable, else the table is enqueued. *)
lofigui_table(table, header, escape) ==
    /\ ~TableEnqueued
    /\ IF InvalidRows(table)
       THEN /\ raised' = "ValueError"
            /\ UNCHANGED <<ctx_queue, history>>
       ELSE /\ raised' = "none"
            /\ ctx_queue' = Append(ctx_queue, TableHtml(table, header, escape))
            /\ history' = Append(history, TableHtml(table, header, escape))
    /\ rowsArg' = table
    /\ headerArg' = header
    /\ tableEscape' = escape
    /\ drained' = 0
    /\ warned' = FALSE
    /\ lastOp' = "table"
    /\ UNCHANGED <<ctx_buffer, ret, wasReset, ctx_max_buffer_size, stepVars,
                   printVars, raceVars, rootVars, default_extra>>
    /\ UNCHANGED <<appVars, ctlVars, arg, outgoing, swallowed, displaced,
                   callArgs>>
    /\ NoRender

(***************************************************************************)
(* Specifications                                                          *)
(***************************************************************************)

(* PrintContext(max_buffer_size=m), no call made on it yet *)
InitCtxSized(m) ==
    /\ ctx_queue = << >>
    /\ ctx_buffer = << >>
    /\ ctx_max_buffer_size = m
    /\ ret = << >>
    /\ drained = 0
    /\ history = << >>
    /\ wasReset = FALSE
    /\ warned = FALSE
    /\ rd_pc = "idle"
    /\ rd_op = "none"
    /\ rd_response = << >>
    /\ rd_pending = 0
    /\ rd_taken = 0
    /\ msgArg = << >>
    /\ endArg = << >>
    /\ escapeArg = FALSE
    /\ default_extra = EmptyDict
    /\ sd_pc = "idle"
    /\ sd_results = << >>
    /\ sd_req = None
    /\ sd_extra = EmptyDict
    /\ rowsArg = << >>
    /\ headerArg = << >>
    /\ tableEscape = FALSE
    /\ html_ret = << >>
    /\ redirectArg = << >>
    /\ resetArg = FALSE
    /\ model_runs = 0

(* _ctx = PrintContext() *)
InitCtx == InitCtxSized(<< >>)

(* App(controller=c) *)
InitAppHolding(held) ==
    /\ app_controller = held
    /\ app_action_running = FALSE
    /\ app_poll = FALSE
    /\ app_startup = TRUE
    /\ app_refresh_time = AppInitRefresh
    /\ app_poll_count = 0
    /\ app_startup_bounce_count = 0
    /\ ctl_action_running = [c \in StdControllers |-> FALSE]
    /\ ctl_poll = [c \in StdControllers |-> FALSE]
    /\ ctl_refresh_time = [c \in StdControllers |-> ControllerInitRefresh]
    /\ ctl_poll_count = [c \in StdControllers |-> 0]
    /\ raised = "none"
    /\ arg = None
    /\ outgoing = None
    /\ swallowed = FALSE
    /\ displaced = {}
    /\ callArgs = << >>

(* App() *)
InitApp == InitAppHolding(None)

InitRender ==
    /\ req = None
    /\ extraArg = EmptyDict
    /\ extraAfter = EmptyDict
    /\ ctxd = EmptyDict
    /\ reads = 0
    /\ http_response = "none"
    /\ nonHomeCalls = 0

Init ==
    /\ InitCtx
    /\ InitApp
    /\ InitRender
    /\ lastOp = "init"

NextCtx ==
    \/ \E f \in Fragments : put_nowait(f)
    \/ read
    \/ buffer
    \/ reset

NextApp ==
    \/ \E new \in Controllers \cup {None} : App_controller_setter(new)
    \/ \E args \in StartArgs : App_start_action(args)
    \/ App_end_action
    \/ \E c \in StdControllers :
           \E args \in StartArgs : Controller_start_action(c, args)
    \/ \E c \in StdControllers : Controller_end_action(c)

(* The buffer alone. *)
SpecCtx == Init /\ [][NextCtx]_vars

(* The App and its controllers alone. *)
SpecApp == Init /\ [][NextApp]_vars

(* The fragment the producer of the render path enqueues. *)
RenderFragments == {<<"a">>}

(* The controller argument of App(): none, a Controller, or a controller
   without state_dict. *)
HeldAtConstruction == {None, "c1", "minimal"}

(* An App constructed with or without a controller. *)
InitHolding ==
    /\ InitCtx
    /\ \E c \in HeldAtConstruction : InitAppHolding(c)
    /\ InitRender
    /\ lastOp = "init"

NextRender ==
    \/ \E f \in RenderFragments : put_nowait(f)
    \/ \E args \in StartArgs : App_start_action(args)
    \/ App_end_action
    \/ \E c \in StdControllers \cap {app_controller} :
           \E args \in StartArgs : Controller_start_action(c, args)
    \/ \E c \in StdControllers \cap {app_controller} : Controller_end_action(c)
    \/ \E request \in Requests, extra \in Extras : App_state_dict(request, extra)
    \/ \E c \in StdControllers \cap {app_controller} :
           \E request \in Requests \cup {None}, extra \in Extras :
               Controller_state_dict(c, request, extra)
    \/ \E request \in Requests, extra \in Extras :
           App_template_response(request, extra)

(* The render path: the App, the controller it was constructed with, and a
   producer of fragments. *)
SpecRender == InitHolding /\ [][NextRender]_vars

(* The max_buffer_size of a PrintContext: None, 0 or a number of
   characters. *)
Ceilings == {<< >>, <<0>>, <<1>>, <<2>>}

(* with PrintContext(max_buffer_size=m) as ctx: *)
InitSized ==
    /\ \E m \in Ceilings : InitCtxSized(m)
    /\ InitApp
    /\ InitRender
    /\ lastOp = "init"

NextSized ==
    \/ \E f \in Fragments : put_nowait(f)
    \/ read
    \/ buffer
    \/ reset
    \/ \E exc \in ExitArgs : PrintContext_exit(exc)

(* A PrintContext of the caller's own, with or without a size ceiling. *)
SpecSized == InitSized /\ [][NextSized]_vars

NextSteps ==
    \/ \E p \in Producers : Producer_put(p)
    \/ \E op \in {"read", "buffer"} : read_call(op)
    \/ read_while
    \/ read_get_nowait
    \/ read_append

(* Producers and one consumer, interleaved at the steps of read(). *)
SpecSteps == Init /\ [][NextSteps]_vars

NextPrint ==
    \/ \E msg \in Msgs, end \in Ends, escape \in BOOLEAN :
           lofigui_print(msg, end, escape)
    \/ buffer

(* print calls and the reader of the buffer. *)
SpecPrint == Init /\ [][NextPrint]_vars

NextTask ==
    \/ \E f \in RenderFragments : put_nowait(f)
    \/ buffer
    \/ \E args \in StartArgs : App_start_action(args)
    \/ App_end_action
    \/ \E c \in StdControllers \cap {app_controller} :
           \E args \in StartArgs : Controller_start_action(c, args)
    \/ \E c \in StdControllers \cap {app_controller} : Controller_end_action(c)

(* A background task that enqueues fragments, the calls that start and end
   the action, and the reader of the buffer. *)
SpecTask == InitHolding /\ [][NextTask]_vars

NextStartup ==
    \/ \E new \in Controllers \cup {None} : App_controller_setter(new)
    \/ \E args \in StartArgs : App_start_action(args)
    \/ App_end_action
    \/ \E request \in Requests, extra \in Extras : App_state_dict(request, extra)
    \/ \E request \in Requests, extra \in Extras :
           App_template_response(request, extra)

(* The startup bounce: the calls on an App, controller assignments among
   them, with nothing enqueued. *)
SpecStartup == Init /\ [][NextStartup]_vars

NextRoot ==
    \/ \E f \in RenderFragments : put_nowait(f)
    \/ buffer
    \/ \E c \in StdControllers, redirect_url \in RedirectUrls,
          reset_buffer \in BOOLEAN :
           Controller_handle_root(c, redirect_url, reset_buffer)
    \/ \E f \in RenderFragments : model_func(f)
    \/ \E c \in StdControllers : Controller_end_action(c)

(* The root endpoint of a Controller: handle_root, the model function the
   caller runs, the end of the action, and the reader of the buffer. *)
SpecRoot == Init /\ [][NextRoot]_vars

NextRace ==
    \/ \E args \in StartArgs : task_start(args)
    \/ \E f \in RenderFragments : task_print(f)
    \/ task_print_final
    \/ task_end_action
    \/ \E request \in Requests, extra \in Extras :
           state_dict_buffer(request, extra)
    \/ state_dict_poll

(* One run of a background task that prints and ends the action, beside
   the App.state_dict calls of the display endpoint taken in two steps. *)
SpecRace == Init /\ [][NextRace]_vars

(* The fragment enqueued before a table call. *)
TableFragments == {<<"a">>}

NextTable ==
    \/ \E table \in TableArgs, header \in HeaderArgs, escape \in BOOLEAN :
           lofigui_table(table, header, escape)
    \/ \E f \in TableFragments : ~TableEnqueued /\ put_nowait(f)
    \/ buffer

(* A table call after other output, and the reader of the buffer. *)
SpecTable == Init /\ [][NextTable]_vars

(***************************************************************************)
(* Properties of the buffer (checked under SpecCtx)                        *)
(***************************************************************************)

(* C1: with no reset since construction, buffer() returns the concatenation,
   in enqueue order, of every fragment enqueued so far, and a second
   buffer() right after it returns the same string again. *)
C1_BufferIsConcatenation ==
    [][ /\ (lastOp' = "buffer" /\ ~wasReset') => ret' = Flatten(history')
        /\ (lastOp = "buffer" /\ lastOp' = "buffer") => ret' = ret ]_vars

(* A buffer() call that had nothing left to drain returned "bca", the two
   fragments "bc" and "a" enqueued in that order and drained before. *)
C1_Witness ==
    /\ lastOp = "buffer"
    /\ ~wasReset
    /\ drained = 0
    /\ history = << <<"b", "c">>, <<"a">> >>
    /\ ret = <<"b", "c", "a">>

(* C2: reset() empties the buffer and leaves the pending queue as it is, and
   the buffer() call that follows a reset returns the concatenation of the
   fragments that were pending at the reset. *)
C2_ResetKeepsQueue ==
    [][ /\ lastOp' = "reset" => (ctx_buffer' = << >> /\ ctx_queue' = ctx_queue)
        /\ (lastOp = "reset" /\ lastOp' = "buffer") => ret' = Flatten(ctx_queue)
      ]_vars

(* reset() has acted on a context with two pending fragments, after an
   earlier fragment had been drained into the buffer. *)
C2_Witness ==
    /\ lastOp = "reset"
    /\ Len(ctx_queue) = 2
    /\ Flatten(ctx_queue) # << >>
    /\ Len(history) = 3

(* C3: reset() immediately followed by buffer() returns the empty string. *)
C3_ResetThenBufferIsEmpty ==
    [][ (lastOp = "reset" /\ lastOp' = "buffer") => ret' = << >> ]_vars

(* C4: after reset() the buffer is empty and the pending queue is empty. *)
C4_ResetDrainsQueue ==
    lastOp = "reset" => (ctx_buffer = << >> /\ ctx_queue = << >>)

(* C5: a drain (read() or buffer()) leaves the queue empty and the buffer
   equal to the old buffer followed by every pending fragment, in insertion
   order. *)
C5_DrainIsTotal ==
    [][ lastOp' \in {"read", "buffer"} =>
            /\ ctx_queue' = << >>
            /\ ctx_buffer' = ctx_buffer \o Flatten(ctx_queue) ]_vars

(* read() has just drained two non-empty fragments onto a buffer that held
   a third one. *)
C5_Witness ==
    /\ lastOp = "read"
    /\ drained = 2
    /\ ~wasReset
    /\ Len(history) = 3
    /\ \A i \in 1..3 : history[i] # << >>
    /\ ctx_buffer = Flatten(history)

(* C6: a drain on an empty pending queue changes neither the buffer nor the
   queue. *)
C6_DrainOfEmptyQueueIsNoOp ==
    [][ (lastOp' \in {"read", "buffer"} /\ ctx_queue = << >>) =>
            (ctx_queue' = ctx_queue /\ ctx_buffer' = ctx_buffer) ]_vars

(* read() found the queue empty while the buffer held text. *)
C6_Witness ==
    /\ lastOp = "read"
    /\ drained = 0
    /\ ctx_buffer # << >>
    /\ ctx_queue = << >>

(***************************************************************************)
(* Properties of the App and its controllers (checked under SpecApp)       *)
(***************************************************************************)

(* C7: assigning to App.controller the controller that is already held
   changes nothing: the held controller, the running and poll state of every
   controller and the App's own running and poll state stay as they are, and
   nothing is raised. *)
C7_SameControllerIsNoOp ==
    [][ (lastOp' = "App.controller.setter" /\ arg' = app_controller) =>
            (UNCHANGED <<appVars, ctlVars>> /\ raised' = "none") ]_vars

(* The held Controller was assigned again while it and the App were
   running, and both still are. *)
C7_Witness ==
    /\ lastOp = "App.controller.setter"
    /\ outgoing = arg
    /\ arg \in StdControllers
    /\ app_controller = arg
    /\ ctl_action_running[arg] /\ ctl_poll[arg]
    /\ app_action_running /\ app_poll

(* C8: assigning a different controller (or None) while the held Controller
   reports is_action_running() true leaves that outgoing Controller not
   running, and does not make the new controller running. *)
C8_ReplacementEndsOutgoingAction ==
    [][ \A c \in StdControllers :
          ( /\ lastOp' = "App.controller.setter"
            /\ app_controller = c
            /\ arg' # c
            /\ Controller_is_action_running(c) ) =>
          ( /\ ~ctl_action_running'[c]
            /\ arg' \in StdControllers =>
                   (ctl_action_running'[arg'] => ctl_action_running[arg']) )
      ]_vars

(* C9: every Controller that was held and has since been displaced, and on
   which start_action was not called after that, reports is_action_running()
   false. *)
C9_DisplacedControllersStayEnded ==
    \A c \in displaced \cap StdControllers : ~Controller_is_action_running(c)

(* C10: an assignment to App.controller never raises and always leaves the
   assigned controller held. *)
C10_ReplacementNeverRaises ==
    lastOp = "App.controller.setter" => (raised = "none" /\ app_controller = arg)

(* A controller without end_action and is_action_running, or one whose
   end_action raises, was replaced while the App was running: the exception
   of the cleanup was caught and the new controller is held. *)
C10_Witness ==
    /\ lastOp = "App.controller.setter"
    /\ outgoing \in {"minimal", "error"}
    /\ swallowed
    /\ arg # outgoing
    /\ app_controller = arg
    /\ raised = "none"

(* The running and poll flags the calls so far have left: no instance is
   running at construction; every Controller, and the App while it holds no
   controller, is Idle (neither flag) or Running (both flags); start_action
   leaves the instance Running and end_action leaves it Idle, without
   raising. *)
LifecycleState ==
    /\ lastOp = "init" =>
           /\ \A c \in StdControllers : ~ctl_action_running[c] /\ ~ctl_poll[c]
           /\ ~app_action_running /\ ~app_poll
    /\ \A c \in StdControllers : ctl_action_running[c] = ctl_poll[c]
    /\ app_controller = None => app_action_running = app_poll
    /\ lastOp = "Controller.start_action" =>
           (Controller_is_action_running(arg) /\ ctl_poll[arg] /\ raised = "none")
    /\ lastOp = "Controller.end_action" =>
           (~Controller_is_action_running(arg) /\ ~ctl_poll[arg] /\ raised = "none")
    /\ (lastOp = "App.start_action" /\ app_controller = None) =>
           (App_is_action_running /\ app_poll /\ raised = "none")
    /\ (lastOp = "App.end_action" /\ app_controller = None) =>
           (~App_is_action_running /\ ~app_poll /\ raised = "none")

(* C11: the action lifecycle of a Controller and of an App without a
   controller: not running at first, Running (running and poll true) after
   start_action, Idle (both false) after end_action, never anything else,
   and end_action on an Idle instance changes none of its fields. *)
C11_ActionLifecycle ==
    /\ LifecycleState
    /\ [][ /\ LifecycleState'
           /\ (lastOp' = "Controller.end_action" /\ ~ctl_action_running[arg']) =>
                  UNCHANGED ctlVars
           /\ (lastOp' = "App.end_action" /\ app_controller = None
                   /\ ~app_action_running) => UNCHANGED appVars ]_vars

(* end_action was called on a Controller that start_action(5) had started,
   while the App, holding no controller, is running after start_action(5). *)
C11_Witness ==
    /\ lastOp = "Controller.end_action"
    /\ ~ctl_action_running[arg] /\ ~ctl_poll[arg]
    /\ ctl_refresh_time[arg] = 5
    /\ app_controller = None
    /\ app_action_running /\ app_poll
    /\ app_refresh_time = 5

(* C12: while the App holds a Controller, App.start_action leaves that
   Controller running with poll true, App.end_action leaves it not running,
   neither raises, and App.is_action_running() is what the Controller
   reports. *)
C12_AppDelegatesToController ==
    app_controller \in StdControllers =>
        /\ lastOp = "App.start_action" =>
               /\ raised = "none"
               /\ Controller_is_action_running(app_controller)
               /\ ctl_poll[app_controller]
        /\ lastOp = "App.end_action" =>
               /\ raised = "none"
               /\ ~Controller_is_action_running(app_controller)
        /\ App_is_action_running = Controller_is_action_running(app_controller)

(* Whether a start_action call passed a refresh interval (not None). *)
GivesInterval(args) == args # << >> /\ args[1] # << >>

(* C15: start_action with a refresh interval stores it, and start_action
   without one keeps the stored interval, on a Controller and on the App. *)
C15_StartKeepsInterval ==
    [][ /\ lastOp' = "Controller.start_action" =>
               ctl_refresh_time'[arg'] =
                   IF GivesInterval(callArgs') THEN callArgs'[1][1]
                   ELSE ctl_refresh_time[arg']
        /\ lastOp' = "App.start_action" =>
               app_refresh_time' =
                   IF GivesInterval(callArgs') THEN callArgs'[1][1]
                   ELSE app_refresh_time ]_vars

(***************************************************************************)
(* Properties of rendering (checked under SpecRender)                      *)
(***************************************************************************)

(* C13: while poll is true, a state_dict call of a Controller, or of an App
   without a controller, reports the poll_count held before the call and
   leaves it one higher. *)
C13_ReportsThenIncrements ==
    [][ /\ (lastOp' = "Controller.state_dict" /\ ctl_poll[arg']) =>
               /\ ctxd'["poll_count"] = ctl_poll_count[arg']
               /\ ctl_poll_count'[arg'] = ctl_poll_count[arg'] + 1
        /\ ( /\ lastOp' = "App.state_dict"
             /\ app_controller = None
             /\ app_poll
             /\ "poll_count" \notin DOMAIN extraArg' ) =>
               /\ ctxd'["poll_count"] = app_poll_count
               /\ app_poll_count' = app_poll_count + 1 ]_vars

(* C14: whenever poll is false poll_count is 0, on every Controller and on
   the App. *)
C14_IdleMeansNoPolls ==
    /\ ~app_poll => app_poll_count = 0
    /\ \A c \in StdControllers : ~ctl_poll[c] => ctl_poll_count[c] = 0

(* C16: the context App.state_dict returns maps every key of extra to the
   value extra gives it, with or without a controller held. *)
C16_ExtraWins ==
    (lastOp = "App.state_dict" /\ raised = "none") =>
        \A k \in DOMAIN extraArg : ctxd[k] = extraArg[k]

(* C17: a call of App.state_dict calls buffer() exactly once. *)
C17_OneReadPerRender ==
    lastOp = "App.state_dict" => reads = 1

(* C18: in the context of Controller.state_dict, and of App.state_dict
   without a controller when extra sets neither key, refresh is the
   directive with the stored refresh interval if poll is true and the empty
   string if it is false, and never the one in the other case; the App's
   polling is "Running" if poll is true and "Stopped" if not. *)
C18_RefreshFollowsPoll ==
    /\ lastOp = "Controller.state_dict" =>
           /\ ctl_poll[arg] <=>
                  ctxd["refresh"] = MetaRefresh(ctl_refresh_time[arg])
           /\ ~ctl_poll[arg] <=> ctxd["refresh"] = << >>
    /\ ( /\ lastOp = "App.state_dict"
         /\ app_controller = None
         /\ DOMAIN extraArg \cap {"refresh", "polling"} = {} ) =>
           /\ app_poll <=> ctxd["refresh"] = MetaRefresh(app_refresh_time)
           /\ ~app_poll <=> ctxd["refresh"] = << >>
           /\ ctxd["polling"] = IF app_poll THEN "Running" ELSE "Stopped"

(* An App without a controller, polling every 5 seconds, built a context
   whose refresh is the directive for 5, from an extra with a key of the
   caller's own. *)
C18_Witness ==
    /\ lastOp = "App.state_dict"
    /\ app_controller = None
    /\ app_poll
    /\ app_refresh_time = 5
    /\ DOMAIN extraArg = {"title"}
    /\ ctxd["refresh"] = MetaRefresh(5)
    /\ ctxd["polling"] = "Running"

(* C19: on an App on which nothing else was called since construction, the
   first StartupBounces template_response calls for a non-home path return
   the redirect, and the call after them does not. *)
C19_FirstCallsBounce ==
    [][ lastOp' = "App.template_response" =>
            /\ nonHomeCalls' \in 1..StartupBounces =>
                   http_response' = "redirect"
            /\ nonHomeCalls' = StartupBounces + 1 =>
                   http_response' # "redirect" ]_vars

(* C20: a template_response call for the home path never returns the
   redirect, renders the template (unless state_dict raises) and leaves the
   bounce disabled; and once the bounce is disabled it stays disabled and
   every template_response call, for any path, renders the template (unless
   state_dict raises). *)
C20_HomeDisablesBounce ==
    [][ /\ (lastOp' = "App.template_response" /\ req' = "/") =>
               /\ http_response' # "redirect"
               /\ reads' >= 1
               /\ raised' = "none" => http_response' = "template"
               /\ ~app_startup'
        /\ ~app_startup =>
               /\ ~app_startup'
               /\ lastOp' = "App.template_response" =>
                      /\ http_response' # "redirect"
                      /\ reads' >= 1
                      /\ raised' = "none" => http_response' = "template" ]_vars

(* A template_response call for the home path rendered the template, with
   what the producer had enqueued, and the bounce is disabled. *)
C20_Witness ==
    /\ lastOp = "App.template_response"
    /\ req = "/"
    /\ http_response = "template"
    /\ ~app_startup
    /\ app_startup_bounce_count = 1
    /\ ctxd["results"] # << >>

(***************************************************************************)
(* Properties of the startup bounce (checked under SpecStartup)            *)
(***************************************************************************)

(* C21: once App.startup is false, no template_response, state_dict,
   start_action, end_action or controller assignment sets it back to true,
   and no call returns the bounce redirect. *)
C21_StartupIsOneWay ==
    [][ ~app_startup => (~app_startup' /\ http_response' # "redirect") ]_vars

(* After the bounce was disabled and a controller was assigned, a
   template_response call for a non-home path rendered the template. *)
C21_Witness ==
    /\ lastOp = "App.template_response"
    /\ req # "/"
    /\ http_response = "template"
    /\ app_controller \in StdControllers
    /\ ~app_startup

(* C22: App.start_action leaves App.startup false, and the template_response
   call that follows a start_action returns no redirect: it goes on to
   state_dict and renders the template (unless state_dict raises). *)
C22_StartClearsStartup ==
    [][ /\ lastOp' = "App.start_action" => ~app_startup'
        /\ (lastOp = "App.start_action" /\ lastOp' = "App.template_response") =>
               /\ http_response' # "redirect"
               /\ reads' >= 1
               /\ raised' = "none" => http_response' = "template" ]_vars

(* The first template_response call on an App, for a non-home path, came
   right after start_action and rendered the template: the bounce counter
   was never touched. *)
C22_Witness ==
    /\ lastOp = "App.template_response"
    /\ req # "/"
    /\ http_response = "template"
    /\ app_startup_bounce_count = 0
    /\ ~app_startup
    /\ app_poll

(***************************************************************************)
(* Properties of read() taken step by step (checked under SpecSteps)       *)
(***************************************************************************)

(* The characters of s that only the producer p enqueues. *)
ProducerPart(s, p) == SelectSeq(s, LAMBDA ch : ch \in Alphabet(p))

(* The buffer, then what a read() in progress holds in response, then the
   pending queue. *)
Output == ctx_buffer \o rd_response \o Flatten(ctx_queue)

(* C23: with producers enqueuing between the steps of the consumer's read()
   and no reset, every fragment enqueued occurs exactly once in the buffer
   followed by the pending queue (with the response of a read() in progress
   between the two), and the fragments of each producer occur there in the
   order it enqueued them. *)
C23_NoFragmentLostOrReordered ==
    /\ Len(Output) = Len(Flatten(history))
    /\ \A p \in Producers :
           ProducerPart(Output, p) =
               Flatten(SubSeq(Script(p), 1, Enqueued(p)))

(* A buffer() call has returned that took more fragments than were pending
   when it was called, both producers having enqueued, and one more
   fragment is already pending. *)
C23_Witness ==
    /\ lastOp = "buffer"
    /\ rd_pc = "idle"
    /\ drained > rd_pending
    /\ \A p \in Producers : Enqueued(p) >= 1
    /\ ctx_queue # << >>
    /\ ret = ctx_buffer

(* C24: a read() takes off the queue at most as many fragments as were
   pending when it was called. *)
C24_DrainBoundedByPending ==
    rd_taken <= rd_pending

(***************************************************************************)
(* Properties of the action and its task (checked under SpecTask)          *)
(***************************************************************************)

(* C25: end_action, of the App or of a Controller, leaves the buffer and the
   pending queue as they are; a fragment enqueued is accepted whether or not
   an action is running, and the next buffer() returns the buffer followed
   by every pending fragment. *)
C25_EndActionLeavesOutput ==
    [][ /\ lastOp' \in {"App.end_action", "Controller.end_action"} =>
               UNCHANGED <<ctx_queue, ctx_buffer>>
        /\ lastOp' = "put_nowait" =>
               /\ Len(ctx_queue') = Len(ctx_queue) + 1
               /\ ctx_queue'[Len(ctx_queue')] = history'[Len(history')]
        /\ lastOp' = "buffer" =>
               ret' = ctx_buffer \o Flatten(ctx_queue) ]_vars

(* buffer() returned text with a fragment it had just drained while the App,
   started once, was no longer running. *)
C25_Witness ==
    /\ lastOp = "buffer"
    /\ drained >= 1
    /\ ~app_startup
    /\ ~app_action_running /\ ~app_poll
    /\ ret # << >>

(***************************************************************************)
(* Properties of a PrintContext with a size ceiling (checked under         *)
(* SpecSized)                                                              *)
(***************************************************************************)

(* What a call does to a PrintContext that has no max_buffer_size. *)
UnlimitedStep ==
    \/ /\ lastOp' = "put_nowait"
       /\ ctx_queue' = Append(ctx_queue, history'[Len(history')])
       /\ ctx_buffer' = ctx_buffer
    \/ /\ lastOp' \in {"read", "buffer"}
       /\ ctx_queue' = << >>
       /\ ctx_buffer' = ctx_buffer \o Flatten(ctx_queue)
       /\ UNCHANGED raised
    \/ /\ lastOp' \in {"reset", "__exit__"}
       /\ ctx_queue' = ctx_queue
       /\ ctx_buffer' = << >>

(* C26: whatever its max_buffer_size, a PrintContext starts with the buffer
   and the queue empty and every enqueue, read and reset changes them as it
   does on a PrintContext without a ceiling; a read raises nothing. *)
C26_CeilingNeverEnforced ==
    /\ ctx_queue = << >> /\ ctx_buffer = << >>
    /\ [][UnlimitedStep]_vars

(* buffer() on a PrintContext with a ceiling returned every fragment
   enqueued, more characters than the ceiling, and the warning was raised. *)
C26_Witness ==
    /\ lastOp = "buffer"
    /\ SizeTruthy(ctx_max_buffer_size)
    /\ Len(ret) > ctx_max_buffer_size[1]
    /\ warned
    /\ ~wasReset
    /\ ret = Flatten(history)

(* C27: on a PrintContext with a max_buffer_size M, a read() raises the
   buffer-size warning if and only if it leaves the buffer longer than M. *)
C27_WarnsIffAboveCeiling ==
    [][ (lastOp' \in {"read", "buffer"} /\ ctx_max_buffer_size # << >>) =>
            (warned' <=> Len(ctx_buffer') > ctx_max_buffer_size[1]) ]_vars

(* C28: __exit__ leaves ctx.buffer empty, whether or not an exception is
   leaving the with block. *)
C28_ExitClearsBuffer ==
    [][ lastOp' = "__exit__" => ctx_buffer' = << >> ]_vars

(* The with block was left by an exception after text had been read into
   the buffer: the buffer is empty, a fragment is still pending and the
   exception goes on. *)
C28_Witness ==
    /\ lastOp = "__exit__"
    /\ arg = "ValueError"
    /\ raised = "ValueError"
    /\ ret # << >>
    /\ ctx_buffer = << >>
    /\ ctx_queue # << >>

(***************************************************************************)
(* Properties of print (checked under SpecPrint)                           *)
(***************************************************************************)

(* "<p>" + m + "</p>\n" *)
Paragraph(m) == <<"<", "p", ">">> \o m \o <<"<", "/", "p", ">", "\n">>

(* "&nbsp;" + m + "&nbsp;" *)
Inline(m) ==
    <<"&", "n", "b", "s", "p", ";">> \o m \o <<"&", "n", "b", "s", "p", ";">>

(* C29: print enqueues exactly one fragment behind those pending: the
   paragraph of m when end is "\n" and the inline form of m for any other
   end, where m is str(msg), entity-escaped if escape is true; the empty
   message gives "<p></p>\n". *)
C29_PrintEnqueuesOneFragment ==
    [][ lastOp' = "print" =>
            LET m == IF escapeArg' THEN HtmlEscape(msgArg') ELSE msgArg'
            IN  /\ ctx_queue' =
                       Append(ctx_queue, IF endArg' = <<"\n">> THEN Paragraph(m)
                                         ELSE Inline(m))
                /\ (msgArg' = << >> /\ endArg' = <<"\n">>) =>
                       ctx_queue'[Len(ctx_queue')] =
                           <<"<", "p", ">", "<", "/", "p", ">", "\n">>
                /\ ctx_buffer' = ctx_buffer ]_vars

(* print(42, end="") enqueued "&nbsp;42&nbsp;" behind a fragment already
   pending. *)
C29_Witness ==
    /\ lastOp = "print"
    /\ endArg = << >>
    /\ msgArg = <<"4", "2">>
    /\ Len(ctx_queue) = 2
    /\ ctx_queue[2] = <<"&", "n", "b", "s", "p", ";", "4", "2",
                        "&", "n", "b", "s", "p", ";">>

(* The entities and the characters they stand for. *)
Entities ==
    { << <<"&", "a", "m", "p", ";">>, "&" >>,
      << <<"&", "l", "t", ";">>, "<" >>,
      << <<"&", "g", "t", ";">>, ">" >>,
      << <<"&", "q", "u", "o", "t", ";">>, "\"" >>,
      << <<"&", "#", "x", "2", "7", ";">>, "'" >> }

(* Whether s begins with t. *)
StartsWith(s, t) == Len(s) >= Len(t) /\ SubSeq(s, 1, Len(t)) = t

(* What a browser reads in s as text: every entity is the character it
   stands for, and a raw '<', '>' or '&' is markup, not text. *)
RECURSIVE EntityDecode(_)
EntityDecode(s) ==
    IF s = << >> THEN << >>
    ELSE IF \E e \in Entities : StartsWith(s, e[1])
         THEN LET e == CHOOSE e \in Entities : StartsWith(s, e[1])
              IN  <<e[2]>> \o EntityDecode(SubSeq(s, Len(e[1]) + 1, Len(s)))
         ELSE IF Head(s) \in {"<", ">", "&"}
              THEN <<"markup">> \o EntityDecode(Tail(s))
              ELSE <<Head(s)>> \o EntityDecode(Tail(s))

(* The part of the fragment f between the wrapper print put around it. *)
Wrapped(f, end) ==
    IF end = <<"\n">> THEN SubSeq(f, 4, Len(f) - 5)
    ELSE SubSeq(f, 7, Len(f) - 6)

(* C30: with escape true, what print wraps has no raw '<', '>' or '&': read
   as text it is str(msg), every such character of msg being there as its
   entity; with escape false it is str(msg) unchanged. *)
C30_EscapeLeavesNoMarkup ==
    [][ lastOp' = "print" =>
            LET body == Wrapped(ctx_queue'[Len(ctx_queue')], endArg')
            IN  IF escapeArg'
                THEN /\ \A i \in 1..Len(body) : body[i] \notin {"<", ">"}
                     /\ EntityDecode(body) = msgArg'
                ELSE body = msgArg' ]_vars

(* print("<b>") with escape true enqueued "<p>&lt;b&gt;</p>\n". *)
C30_Witness ==
    /\ lastOp = "print"
    /\ escapeArg
    /\ endArg = <<"\n">>
    /\ msgArg = <<"<", "b", ">">>
    /\ ctx_queue[Len(ctx_queue)] =
           <<"<", "p", ">", "&", "l", "t", ";", "b", "&", "g", "t", ";",
             "<", "/", "p", ">", "\n">>

(***************************************************************************)
(* Properties of an App that holds a Controller                            *)
(***************************************************************************)

(* C34: with a standard Controller held, App.start_action and App.end_action
   raise nothing and leave the App's own flags as they leave them with no
   controller: running with poll true and startup false after start_action,
   not running with poll false after end_action. *)
C34_StartEndCompleteWithController ==
    (app_controller \in StdControllers) =>
        /\ lastOp = "App.start_action" =>
               raised = "none" /\ app_action_running /\ app_poll /\ ~app_startup
        /\ lastOp = "App.end_action" =>
               raised = "none" /\ ~app_action_running /\ ~app_poll

(* C35: in a context App.state_dict returned for an extra that sets neither
   key, polling is "Running" exactly when refresh is a directive (not ""). *)
C35_PollingAgreesWithRefresh ==
    ( /\ lastOp = "App.state_dict"
      /\ raised = "none"
      /\ DOMAIN extraArg \cap {"polling", "refresh"} = {} ) =>
        (ctxd["polling"] = "Running" <=> ctxd["refresh"] # << >>)

(* C36: in a context App.state_dict(request, extra) returned for an extra
   with no "request" key, the "request" entry is the request passed in. *)
C36_RequestIsTheOnePassed ==
    ( /\ lastOp = "App.state_dict"
      /\ raised = "none"
      /\ "request" \notin DOMAIN extraArg ) =>
        ctxd["request"] = req

(* C37: App.startup_bounce_count never exceeds 1, and an App returns the
   bounce redirect at most once: a call that returns it finds the bounce
   counter at 0 and leaves it at 1, where it stays. *)
C37_AtMostOneBounce ==
    /\ app_startup_bounce_count <= 1
    /\ [][ /\ app_startup_bounce_count' <= 1
           /\ app_startup_bounce_count' >= app_startup_bounce_count
           /\ http_response' = "redirect" =>
                  /\ app_startup_bounce_count = 0
                  /\ app_startup_bounce_count' = 1 ]_vars

(* The one redirect was returned, and a later template_response call for a
   non-home path rendered the template with the counter still at 1. *)
C37_Witness ==
    /\ lastOp = "App.template_response"
    /\ req # "/"
    /\ http_response = "template"
    /\ nonHomeCalls = 2
    /\ app_startup_bounce_count = 1

(* C38: in every state of an App and of a Controller, _action_running
   equals poll, the state left by an App.start_action or App.end_action
   that raised part-way with a controller held included. *)
C38_RunningEqualsPoll ==
    /\ app_action_running = app_poll
    /\ \A c \in StdControllers : ctl_action_running[c] = ctl_poll[c]

(* App.start_action raised with a Controller held and left the App running
   with poll true, while another Controller instance was running too. *)
C38_Witness ==
    /\ lastOp = "App.start_action"
    /\ raised = "AttributeError"
    /\ app_controller \in StdControllers
    /\ app_action_running /\ app_poll
    /\ \E c \in StdControllers : ctl_action_running[c] /\ ctl_poll[c]

(* The keys state_dict sets itself in the dict it returns. *)
OwnKeys ==
    {"request", "version", "results", "controller_name", "polling", "refresh",
     "poll_count"}

(* C39: a state_dict call (of the App, of a Controller, or made through
   template_response) leaves the caller's extra dict as it was given and
   the dict of the default argument empty, and the context of a call made
   without extra has no key but the ones state_dict sets itself. *)
C39_ExtraIsNotMutated ==
    [][ lastOp' \in {"App.state_dict", "Controller.state_dict",
                     "App.template_response"} =>
            /\ extraAfter' = extraArg'
            /\ default_extra' = EmptyDict
            /\ DOMAIN extraArg' = {} => DOMAIN ctxd' \subseteq OwnKeys ]_vars

(* With a Controller held, App.state_dict was given an extra with a key of
   the caller's own after an earlier call: the context has the key next to
   the keys of the Controller, and extra still has that key alone. *)
C39_Witness ==
    /\ lastOp = "App.state_dict"
    /\ app_controller \in StdControllers
    /\ raised = "none"
    /\ DOMAIN extraArg = {"title"}
    /\ DOMAIN extraAfter = {"title"}
    /\ {"title", "results", "refresh", "request"} \subseteq DOMAIN ctxd
    /\ app_poll_count > 0

(***************************************************************************)
(* Properties of Controller.handle_root (checked under SpecRoot)           *)
(***************************************************************************)

(* Whether the string s starts with the string p. *)
HasPrefix(s, p) == Len(s) >= Len(p) /\ SubSeq(s, 1, Len(p)) = p

(* Whether the string s ends with the string p. *)
HasSuffix(s, p) ==
    Len(s) >= Len(p) /\ SubSeq(s, Len(s) - Len(p) + 1, Len(s)) = p

(* C40: Controller.handle_root(model_func, redirect_url, reset_buffer)
   empties the buffer of the default context when reset_buffer is true and
   leaves it unchanged when false, never touches the pending queue, leaves
   the controller running with poll true, does not call model_func, and
   returns the zero-delay redirect to redirect_url. *)
C40_HandleRoot ==
    [][ lastOp' = "Controller.handle_root" =>
            /\ ctx_buffer' = IF resetArg' THEN << >> ELSE ctx_buffer
            /\ ctx_queue' = ctx_queue
            /\ ctl_action_running'[arg'] /\ ctl_poll'[arg']
            /\ model_runs' = model_runs
            /\ HasPrefix(html_ret', RedirectHead)
            /\ HasSuffix(html_ret', RedirectTail)
            /\ SubSeq(html_ret', Len(RedirectHead) + 1,
                      Len(html_ret') - Len(RedirectTail)) = redirectArg'
            /\ raised' = "none" ]_vars

(* handle_root was called with reset_buffer false while the buffer held
   output and a fragment was pending: both are still there, the controller
   runs, and the redirect goes to "/go". *)
C40_Witness ==
    /\ lastOp = "Controller.handle_root"
    /\ ~resetArg
    /\ redirectArg = <<"/", "g", "o">>
    /\ ctx_buffer # << >>
    /\ ctx_queue # << >>
    /\ ctl_action_running[arg] /\ ctl_poll[arg]
    /\ model_runs > 0

(***************************************************************************)
(* Properties of a render beside a running task (checked under SpecRace)   *)
(***************************************************************************)

(* Whether the string f occurs in the string s. *)
Contains(s, f) ==
    \E i \in 1..(Len(s) - Len(f) + 1) : SubSeq(s, i, i + Len(f) - 1) = f

(* C33: once the task has enqueued its final fragment, every context
   App.state_dict returns with refresh "" (for an extra that overrides
   neither results nor refresh) has results that contain that fragment,
   however the task's steps fall between state_dict's read of the buffer
   and its test of poll. *)
C33_LastRenderHasFinalOutput ==
    ( /\ lastOp = "App.state_dict"
      /\ raised = "none"
      /\ WasEnqueued(FinalFragment)
      /\ DOMAIN extraArg \cap {"results", "refresh"} = {}
      /\ ctxd["refresh"] = << >> ) =>
        Contains(ctxd["results"], FinalFragment)

(***************************************************************************)
(* Properties of table (checked under SpecTable)                           *)
(***************************************************************************)

(* The lines of a string whose last character is a newline, each without
   its newline. *)
RECURSIVE SplitLines(_)
SplitLines(s) ==
    IF s = << >> THEN << >>
    ELSE LET n == CHOOSE k \in 1..Len(s) :
                      s[k] = "\n" /\ \A m \in 1..(k - 1) : s[m] # "\n"
         IN  <<SubSeq(s, 1, n - 1)>> \o SplitLines(SubSeq(s, n + 1, Len(s)))

(* The line that the string l, which ends with a newline, makes. *)
Line(l) == SubSeq(l, 1, Len(l) - 1)

(* The cell lines a row of n cells makes under a header of h fields, from
   its cell k on: the last cell of a row shorter than the header spans
   h - n + 1 columns, every other cell is a plain td. *)
RECURSIVE CellLines(_, _, _, _)
CellLines(h, row, k, escape) ==
    IF k > Len(row) THEN << >>
    ELSE LET text == IF escape THEN HtmlEscape(PyStr(row[k]))
                     ELSE PyStr(row[k])
             open == IF Len(row) < h /\ k = Len(row)
                     THEN TdColspanOpen \o Str(h - Len(row) + 1)
                              \o <<"\"", ">">>
                     ELSE TdOpen
         IN  open \o text \o TdClose \o CellLines(h, row, k + 1, escape)

(* The rows of a body from row r on, each between its tr lines. *)
RECURSIVE RowLines(_, _, _, _)
RowLines(h, rows, r, escape) ==
    IF r > Len(rows) THEN << >>
    ELSE TrOpen \o CellLines(h, rows[r].cells, 1, escape) \o TrClose
             \o RowLines(h, rows, r + 1, escape)

(* One th line for each field of the header from field k on. *)
RECURSIVE HeaderLines(_, _, _)
HeaderLines(header, k, escape) ==
    IF k > Len(header) THEN << >>
    ELSE ThOpen
             \o (IF escape THEN HtmlEscape(PyStr(header[k]))
                 ELSE PyStr(header[k]))
             \o ThClose \o HeaderLines(header, k + 1, escape)

(* C31: a table call with a non-empty header enqueues a fragment with one
   <th> line for each header field and, for each row, one line for each
   cell; in a row of fewer cells than the header the last cell, and no
   other, has colspan = len(header) - len(row) + 1, and in a row of as many
   cells or more no cell has a colspan. *)
C31_ColspanOnShortRows ==
    [][ (lastOp' = "table" /\ raised' = "none" /\ headerArg' # << >>) =>
            LET h == Len(headerArg')
                body == IF rowsArg' = << >> THEN << >>
                        ELSE TbodyOpen
                                 \o RowLines(h, rowsArg', 1, tableEscape')
                                 \o TbodyClose
            IN  ctx_queue'[Len(ctx_queue')] =
                    TableOpen \o TheadOpen
                        \o HeaderLines(headerArg', 1, tableEscape')
                        \o TheadClose \o body \o TableClose ]_vars

(* A table with a header of three fields, a row of one field and a row of
   four was enqueued: the one field of the first row spans three columns. *)
C31_Witness ==
    /\ lastOp = "table"
    /\ raised = "none"
    /\ Len(headerArg) = 3
    /\ Len(rowsArg) = 2
    /\ Len(rowsArg[1].cells) = 1
    /\ Len(rowsArg[2].cells) = 4
    /\ Contains(ctx_queue[Len(ctx_queue)],
                TdColspanOpen \o <<"3", "\"", ">">>)

(* C32: a table call with a row that is not iterable raises ValueError and
   leaves queue and buffer as they were; any other call raises nothing and
   enqueues one fragment, which for no rows is the table shell: the opening
   and closing tags with the thead of the header, if any, and no body. *)
C32_InvalidRowsEnqueueNothing ==
    [][ lastOp' = "table" =>
            IF \E r \in 1..Len(rowsArg') : ~rowsArg'[r].iter
            THEN /\ raised' = "ValueError"
                 /\ UNCHANGED <<ctx_queue, ctx_buffer, history>>
            ELSE /\ raised' = "none"
                 /\ ctx_buffer' = ctx_buffer
                 /\ Len(ctx_queue') = Len(ctx_queue) + 1
                 /\ SubSeq(ctx_queue', 1, Len(ctx_queue)) = ctx_queue
                 /\ LET f == ctx_queue'[Len(ctx_queue')]
                        lines == SplitLines(f)
                    IN  rowsArg' = << >> =>
                            /\ HasPrefix(f, TableOpen)
                            /\ HasSuffix(f, TableClose)
                            /\ \A i \in 1..Len(lines) :
                                   /\ lines[i] # Line(TbodyOpen)
                                   /\ lines[i] # Line(TrOpen)
                            /\ headerArg' = << >> =>
                                   f = TableOpen \o TableClose ]_vars

(* A table whose second row is not iterable was given while output was
   pending in the queue and in the buffer: ValueError, and both are as they
   were. *)
C32_Witness ==
    /\ lastOp = "table"
    /\ raised = "ValueError"
    /\ Len(rowsArg) = 2
    /\ rowsArg[1].iter
    /\ ~rowsArg[2].iter
    /\ ctx_queue # << >>
    /\ ctx_buffer # << >>
    /\ ~TableEnqueued

====
